---- MODULE Spec2Model ----
(***************************************************************************)
(* A model of parcel's Rust core:                                          *)
(*   - crates/db/src/alloc.rs: the paged heap (PageAllocator), the bump    *)
(*     Arena and the free-list Slab<T>;                                    *)
(*   - crates/core/src/requests/asset_request.rs: AssetRequest::run and    *)
(*     run_pipeline;                                                       *)
(*   - crates/core/src/lib.rs: Parcel::build;                              *)
(*   - crates/parcel_plugin_rpc/src/nodejs/worker_init.rs: get_worker,     *)
(*     register_worker and the WORKER_INIT dispatcher thread.              *)
(*                                                                         *)
(* TLC's integers are 32-bit signed, so a u32 is modelled by an Int that   *)
(* the bounds keep below 2^31 (TLC stops with an overflow error rather     *)
(* than wrap silently), and a u64 hash is modelled by four 16-bit limbs.   *)
(***************************************************************************)
EXTENDS Integers, Sequences, FiniteSets, TLC

VARIABLES
  \* ---- crates/db/src/alloc.rs
  pages,        \* PageAllocator.pages: the sequence of Page {ptr, len}
  arena_addr,   \* Arena.addr: the bump cursor (1 = no page yet)
  heap,         \* the bytes written into the pages, by packed address
  free_head,    \* Slab.free_head (1 = empty free list)
  elem_size,    \* size_of::<T>() of the Slab<T>
  live,         \* the runs the caller holds: <<addr, count>> (slab) or
                \* <<addr, size>> (arena)
  hist,         \* the calls made so far, with their results
  pre,          \* free_head and heap as they were before the last call
  ub            \* a call has read a page that does not exist (undefined
                \* behaviour): what the program does from there on is not modelled

allocVars == <<pages, arena_addr, heap, free_head, elem_size, live, hist, pre, ub>>

VARIABLES
  \* ---- crates/core/src/requests/asset_request.rs
  self,             \* the AssetRequest
  fs,               \* what options.input_fs.read(file_path) returns
  pc,               \* where AssetRequest::run is: "start", "pipeline" (in or
                    \* just after run_pipeline), "returned", "panicked"
  cur_chain,        \* the `pipeline` of the innermost run_pipeline call
  cur_idx,          \* the position of its loop in that pipeline, from 1
  cur_result,       \* its `result`
  pipeline_result,  \* what run_pipeline returned to run, once it has
  calls,            \* the run_transformer calls made, with what each returned
  lookups,          \* the PipelineMap::get calls made
  fs_reads,         \* the input_fs.read calls made
  cache_sets,       \* the options.cache.set calls made
  request_result    \* the RequestResult that run returned, once it has

assetVars == <<self, fs, pc, cur_chain, cur_idx, cur_result, pipeline_result, calls,
               lookups, fs_reads, cache_sets, request_result>>

VARIABLES
  \* ---- crates/core/src/lib.rs
  project,          \* Parcel.entries and the import graph of the files
  request_tracker,  \* Parcel.request_tracker
  builds            \* the Parcel::build calls made: their events, the requests
                    \* each ran, the requests it found dirty, how it ended

buildVars == <<project, request_tracker, builds>>

VARIABLES
  \* ---- crates/parcel_plugin_rpc/src/nodejs/worker_init.rs
  spawned,           \* WORKER_INIT has been forced: the channel exists and the
                     \* dispatcher thread runs
  rx_subscribe,      \* the messages sent to WORKER_INIT and not yet received
  subscribers,       \* the dispatcher's `subscribers`: a Sender is named by the
                     \* get_worker call that made it
  workers,           \* the dispatcher's `workers`
  get_worker_calls,  \* each get_worker call: where it is ("idle": not made,
                     \* "waiting": in rx.recv(), "returned"), what its channel
                     \* holds (rx), what it returned (ret)
  registered,        \* the workers passed to register_worker so far
  parked             \* the get_worker calls whose Sender the dispatcher has
                     \* pushed onto `subscribers` at some time

workerVars == <<spawned, rx_subscribe, subscribers, workers, get_worker_calls,
                registered, parked>>

vars == <<allocVars, assetVars, buildVars, workerVars>>

----------------------------------------------------------------------------
(* Bounds of the model.                                                    *)

\* The number of Slab / Arena calls in one run.
MaxOps == 6

\* The number of Arena calls in one run of the Arena on its own.
MaxArenaOps == 5

\* The number of Slab and Arena calls in one run of both on one thread.
MaxHeapOps == 5

\* The number of get_worker calls and of register_worker calls.
MaxGetCalls == 3

MaxWorkers == 3

\* The number of run_transformer calls in one AssetRequest::run.
MaxCalls == 3

\* The number of Parcel::build calls on one Parcel.
MaxBuilds == 2

\* The slot counts a caller asks a Slab for.
Counts == {1, 2, 4, 5}

\* size_of::<T>() of the modelled Slab<T>: Test {foo: u32, bar: u32} of
\* test_slab, and a 12-byte element.
ElemSizes == {8, 12}

\* The byte sizes a caller asks an Arena for: below and at a multiple of 8, and
\* around PAGE_SIZE.
ArenaSizes == {5, 8, 65528, 65536, 65544}

----------------------------------------------------------------------------
(* alloc.rs:7-25: addresses.                                               *)

RECURSIVE ilog2(_)
ilog2(n) == IF n <= 1 THEN 0 ELSE 1 + ilog2(n \div 2)

RECURSIVE Pow2(_)
Pow2(n) == IF n = 0 THEN 1 ELSE 2 * Pow2(n - 1)

PAGE_SIZE == 65536

\* i32::MAX. u32::MAX = 2 * I32_MAX + 1 is not a TLC integer.
I32_MAX == 2147483647

\* PTR_MAX / PAGE_SIZE + 1 with PTR_MAX = u32::MAX = 2 * I32_MAX + 1: for an even
\* PAGE_SIZE, (2 * I32_MAX + 1) \div PAGE_SIZE = I32_MAX \div (PAGE_SIZE \div 2).
NUM_PAGES == I32_MAX \div (PAGE_SIZE \div 2) + 1

PAGE_INDEX_SIZE == ilog2(NUM_PAGES)

PAGE_INDEX_SHIFT == 32 - PAGE_INDEX_SIZE

\* PAGE_OFFSET_MASK = (1 << PAGE_INDEX_SHIFT) - 1: the low PAGE_INDEX_SHIFT bits.
PAGE_OFFSET_MASK == Pow2(PAGE_INDEX_SHIFT) - 1

\* x & PAGE_OFFSET_MASK
AndOffsetMask(x) == x % (PAGE_OFFSET_MASK + 1)

\* (addr & PAGE_INDEX_MASK) >> PAGE_INDEX_SHIFT, addr & PAGE_OFFSET_MASK
unpack_addr(addr) ==
  [page_index |-> addr \div Pow2(PAGE_INDEX_SHIFT), offset |-> AndOffsetMask(addr)]

\* (page << PAGE_INDEX_SHIFT) | (offset & PAGE_OFFSET_MASK): the two operands
\* share no bit, so | is +.
pack_addr(page, offset) == page * Pow2(PAGE_INDEX_SHIFT) + AndOffsetMask(offset)

----------------------------------------------------------------------------
(* alloc.rs:46-96: PageAllocator. A page index is 0-based; pages[i + 1] is *)
(* page i.                                                                 *)

Max(a, b) == IF a >= b THEN a ELSE b

\* get_page(index): pages.get_unchecked(index). An index past the end is undefined
\* behaviour: the read yields some bytes that are no Page of the allocator, `wild`.
get_page(pgs, index, wild) == IF index < Len(pgs) THEN pgs[index + 1] ELSE wild

\* What an out-of-bounds get_unchecked may yield, as far as the callers can tell:
\* a length below or above whatever it is compared with.
WildPages == {[ptr |-> 0, len |-> 0], [ptr |-> 0, len |-> I32_MAX]}

\* std::alloc::alloc returns any 8-aligned block that overlaps no live one. The
\* model offers the lowest free address above the pages so far (so that two pages
\* can be adjacent in memory) and one further up.
HeapLo == 16 * PAGE_SIZE

PageEnds(pgs) == {HeapLo} \cup {pgs[i].ptr + pgs[i].len : i \in DOMAIN pgs}

Top(pgs) == CHOOSE e \in PageEnds(pgs) : \A f \in PageEnds(pgs) : f <= e

PagePtrs(pgs) == {Top(pgs), Top(pgs) + PAGE_SIZE}

\* What the system may answer during one call.
Sys(pgs) == [ptr : PagePtrs(pgs), wild : WildPages]

\* The answers that differ only in a part the call did not use count once.
SysUsed(pgs, sys, r) ==
  /\ r.pages # pgs \/ sys.ptr = Top(pgs)
  /\ r.ub \/ sys.wild.len = 0

\* alloc_page(min_size, zeroed): pushes Page {ptr, len} and returns its index.
alloc_page(pgs, min_size, ptr) ==
  [pages |-> Append(pgs, [ptr |-> ptr, len |-> Max(min_size, PAGE_SIZE)]),
   page_index |-> Len(pgs)]

\* get::<T>(addr): pages[page_index].ptr + offset
get(pgs, addr, wild) ==
  LET a == unpack_addr(addr) IN get_page(pgs, a.page_index, wild).ptr + a.offset

\* An Option is a sequence of at most one element.
None == <<>>

Some(x) == <<x>>

\* find_page(ptr): the scan of the pages from index i on. The pages of the scan
\* all exist, so get_page reads no wild page.
RECURSIVE find_page_from(_, _, _)
find_page_from(pgs, i, ptr) ==
  IF i >= Len(pgs) THEN None
  ELSE LET page == get_page(pgs, i, [ptr |-> 0, len |-> 0]) IN
       IF page.ptr <= ptr /\ ptr < page.ptr + page.len
       THEN Some(pack_addr(i, ptr - page.ptr))
       ELSE find_page_from(pgs, i + 1, ptr)

find_page(pgs, ptr) == find_page_from(pgs, 0, ptr)

----------------------------------------------------------------------------
(* alloc.rs:140-189: Arena.                                                *)

\* (size + 7) & !7
RoundUp8(size) == (size + 7) - ((size + 7) % 8)

\* Arena::alloc(size) with the cursor at `cursor`. sys.ptr is what the system
\* allocator returns should a page be needed, sys.wild what an out-of-bounds
\* page read yields.
Arena_alloc(cursor, pgs, size0, sys) ==
  LET size == RoundUp8(size0) IN
  IF cursor = 1
  THEN LET p == alloc_page(pgs, size, sys.ptr) IN
       [ret |-> pack_addr(p.page_index, 0),
        addr |-> pack_addr(p.page_index, size),
        pages |-> p.pages, ub |-> FALSE]
  ELSE LET a == unpack_addr(cursor)
           page == get_page(pgs, a.page_index, sys.wild) IN
       IF a.offset + size >= page.len
       THEN LET p == alloc_page(pgs, size, sys.ptr) IN
            [ret |-> pack_addr(p.page_index, 0),
             addr |-> pack_addr(p.page_index, size),
             pages |-> p.pages, ub |-> a.page_index >= Len(pgs)]
       ELSE [ret |-> cursor, addr |-> cursor + size, pages |-> pgs,
             ub |-> a.page_index >= Len(pgs)]

\* Arena::dealloc(ptr, layout) with layout.size() = size; the cursor it leaves
\* (a cursor below 0 stands for the u32 that the subtraction wraps to).
Arena_dealloc(cursor, pgs, ptr, size, wild) ==
  LET a == unpack_addr(cursor) IN
  IF a.offset = 0
  THEN [addr |-> cursor, ub |-> FALSE]
  ELSE LET page == get_page(pgs, a.page_index, wild)
           cur_ptr == page.ptr + a.offset
           end_ptr == ptr + RoundUp8(size) IN
       [addr |-> IF cur_ptr = end_ptr THEN cursor - size ELSE cursor,
        ub |-> a.page_index >= Len(pgs)]

----------------------------------------------------------------------------
(* alloc.rs:225-308: Slab<T>. The heap is a map from packed byte address   *)
(* to byte. A FreeNode {slots: u32, next: u32} at addr is the bytes        *)
(* addr .. addr + 7: slots in the first four, next in the last four, least *)
(* significant byte first (the targets parcel builds for are little        *)
(* endian). Nothing aligns addr: for a size_of::<T>() that is not a        *)
(* multiple of 4, two nodes can share bytes.                               *)

\* size_of::<FreeNode>()
FREE_NODE_SIZE == 8

Byte(v, k) == (v \div (256 ^ k)) % 256

ReadWord(h, addr) ==
  h[addr] + 256 * h[addr + 1] + 65536 * h[addr + 2] + 16777216 * h[addr + 3]

NodeSlots(h, addr) == ReadWord(h, addr)

NodeNext(h, addr) == ReadWord(h, addr + 4)

WriteWord(h, addr, v) ==
  [a \in DOMAIN h \cup (addr .. addr + 3) |->
     IF a \in addr .. addr + 3 THEN Byte(v, a - addr) ELSE h[a]]

\* SlabWalk splitting a larger node from its head instead of its tail.
RECURSIVE SlabWalkSplitHead(_, _, _, _, _, _)
SlabWalkSplitHead(h, head, addr, prev, size, count) ==
  IF NodeSlots(h, addr) >= count
  THEN IF count < NodeSlots(h, addr)
       THEN LET slots == NodeSlots(h, addr) - count IN
            [found |-> TRUE, ret |-> addr,
             heap |-> WriteWord(h, addr, slots), free_head |-> head]
       ELSE IF prev = 0
            THEN [found |-> TRUE, ret |-> addr, heap |-> h,
                  free_head |-> NodeNext(h, addr)]
            ELSE [found |-> TRUE, ret |-> addr,
                  heap |-> WriteWord(h, prev, NodeNext(h, addr)), free_head |-> head]
  ELSE IF NodeNext(h, addr) = 1
       THEN [found |-> FALSE]
       ELSE SlabWalkSplitHead(h, head, NodeNext(h, addr), addr + 4, size, count)

\* The loop of Slab::alloc (alloc.rs:256-280). `prev` is the place the loop's
\* `prev: *mut u32` points at: 0 for &mut self.free_head, otherwise the address
\* of the next field of the node visited before.
RECURSIVE SlabWalk(_, _, _, _, _, _)
SlabWalk(h, head, addr, prev, size, count) ==
  IF NodeSlots(h, addr) >= count
  THEN IF count < NodeSlots(h, addr)
       THEN LET slots == NodeSlots(h, addr) - count IN
            [found |-> TRUE, ret |-> addr + size * slots,
             heap |-> WriteWord(h, addr, slots), free_head |-> head]
       ELSE IF prev = 0
            THEN [found |-> TRUE, ret |-> addr, heap |-> h,
                  free_head |-> NodeNext(h, addr)]
            ELSE [found |-> TRUE, ret |-> addr,
                  heap |-> WriteWord(h, prev, NodeNext(h, addr)), free_head |-> head]
  ELSE IF NodeNext(h, addr) = 1
       THEN [found |-> FALSE]
       ELSE SlabWalk(h, head, NodeNext(h, addr), addr + 4, size, count)

\* Slab::alloc(count)
Slab_alloc(h, head, cursor, pgs, size, count, sys) ==
  LET w == IF head # 1 THEN SlabWalk(h, head, head, 0, size, count)
                       ELSE [found |-> FALSE] IN
  IF w.found
  THEN [ret |-> w.ret, heap |-> w.heap, free_head |-> w.free_head,
        addr |-> cursor, pages |-> pgs, ub |-> FALSE]
  ELSE LET a == Arena_alloc(cursor, pgs, size * count, sys) IN
       [ret |-> a.ret, heap |-> h, free_head |-> head,
        addr |-> a.addr, pages |-> a.pages, ub |-> a.ub]

\* Slab::dealloc without `self.free_head = addr`.
Slab_deallocKeepHead(h, head, addr, count) ==
  [heap |-> WriteWord(WriteWord(h, addr, count), addr + 4, head),
   free_head |-> head]

\* Slab::dealloc(addr, count)
Slab_dealloc(h, head, addr, count) ==
  [heap |-> WriteWord(WriteWord(h, addr, count), addr + 4, head),
   free_head |-> addr]

\* The bytes the loop of Slab::alloc(count) writes on the free list from
\* `addr`: node.slots when it splits a node (alloc.rs:260), *prev when it
\* unlinks one that is not the head (alloc.rs:263).
RECURSIVE SlabWalkWrites(_, _, _, _)
SlabWalkWrites(h, addr, prev, count) ==
  IF NodeSlots(h, addr) >= count
  THEN IF count < NodeSlots(h, addr) THEN addr .. addr + 3
       ELSE IF prev = 0 THEN {} ELSE prev .. prev + 3
  ELSE IF NodeNext(h, addr) = 1
       THEN {}
       ELSE SlabWalkWrites(h, NodeNext(h, addr), addr + 4, count)

\* The heap bytes Slab::alloc(count) writes.
Slab_alloc_writes(h, head, count) ==
  IF head # 1 THEN SlabWalkWrites(h, head, 0, count) ELSE {}

\* The heap bytes Slab::dealloc(addr, count) writes: the FreeNode at addr
\* (alloc.rs:303-305).
Slab_dealloc_writes(addr) == addr .. addr + FREE_NODE_SIZE - 1

----------------------------------------------------------------------------
(* crates/core: the data AssetRequest::run works on. A Result is a record  *)
(* with an ok field.                                                       *)

Ok(v) == [ok |-> TRUE, val |-> v]

Err(d) == [ok |-> FALSE, diags |-> d]

\* A path is the sequence of its components, each [stem, ext]; ext = "" is a
\* component without an extension.
Comp(stem, ext) == [stem |-> stem, ext |-> ext]

\* Component::as_os_str
as_os_str(c) == IF c.ext = "" THEN c.stem ELSE c.stem \o "." \o c.ext

\* Path::extension().and_then(|s| s.to_str()).unwrap_or(""): of the last component.
extension(path) == path[Len(path)].ext

\* Path::with_extension
with_extension(path, ext) == [path EXCEPT ![Len(path)].ext = ext]

\* The asset types of the model.
AssetTypes == {"js", "ts"}

\* AssetType::from_extension
AssetType_from_extension(ext) == IF ext \in AssetTypes THEN ext ELSE "unknown"

\* AssetType::extension
AssetType_extension(type) == IF type \in AssetTypes THEN type ELSE ""

\* The transformer chains (Vec<PluginNode>) of the model, over the plugins "tA"
\* and "tB".
Chains == {<<>>, <<"tA">>, <<"tA", "tB">>}

PipelineNames == {None, Some("inline")}

\* A PipelineMap: the chain per (extension, named pipeline). The maps of the
\* model give each extension any chain of Chains, and every file of a named
\* pipeline the chain <<"tB", "tA">>.
PipelineMaps ==
  { [key \in AssetTypes \X PipelineNames |->
       IF key[2] # None THEN <<"tB", "tA">> ELSE by_ext[key[1]]] :
    by_ext \in [AssetTypes -> Chains] }

\* PipelineMap::get(path, pipeline, named_only = false)
PipelineMap_get(map, path, pipeline) == map[<<extension(path), pipeline>>]

\* A u64 is four 16-bit limbs, most significant first.
HashZero == <<0, 0, 0, 0>>

\* xxh3_64(bytes): a function of the bytes and of nothing else.
RECURSIVE Mix(_, _, _)
Mix(bytes, mult, acc) ==
  IF bytes = <<>> THEN acc
  ELSE Mix(Tail(bytes), mult, (acc * mult + Head(bytes) + 1) % 65536)

xxh3_64(bytes) ==
  <<Mix(bytes, 31, 40503), Mix(bytes, 37, 11), Mix(bytes, 41, 13), Mix(bytes, 251, Len(bytes))>>

\* Asset::id(): a function of the fields that identify the asset (file_path,
\* env, pipeline, asset_type) and of nothing else.
Asset_id(asset) ==
  <<43981 * Len(asset.pipeline),
    Len(asset.file_path),
    Len(as_os_str(asset.file_path[1])),
    Len(asset.asset_type) + 16 * Len(asset.pipeline)
      + 256 * Len(as_os_str(asset.file_path[Len(asset.file_path)]))>>

\* format!("{:x}", n) and format!("{:016x}", n). A string is the sequence of its
\* characters; Nibbles is n in base 16, all 16 digits of it.
HexDigits == <<"0", "1", "2", "3", "4", "5", "6", "7", "8", "9", "a", "b", "c", "d", "e", "f">>

Nibbles(limbs) ==
  [i \in 1..(4 * Len(limbs)) |->
     LET l == limbs[(i - 1) \div 4 + 1] IN
     CASE (i - 1) % 4 = 0 -> l \div 4096
       [] (i - 1) % 4 = 1 -> (l \div 256) % 16
       [] (i - 1) % 4 = 2 -> (l \div 16) % 16
       [] OTHER -> l % 16]

RECURSIVE StripZeros(_)
StripZeros(digits) ==
  IF Len(digits) > 1 /\ Head(digits) = 0 THEN StripZeros(Tail(digits)) ELSE digits

RECURSIVE PadLeft(_, _, _)
PadLeft(s, width, c) == IF Len(s) >= width THEN s ELSE PadLeft(<<c>> \o s, width, c)

FormatLowerHex(limbs) ==
  LET d == StripZeros(Nibbles(limbs)) IN [i \in 1..Len(d) |-> HexDigits[d[i] + 1]]

\* format!("{:016x}", n).
Format016x(limbs) == PadLeft(FormatLowerHex(limbs), 16, "0")

\* AssetFlags::set(flag, value)
flags_set(flags, flag, value) == IF value THEN flags \cup {flag} ELSE flags \ {flag}

\* asset_request.rs:44-52 with IS_SOURCE set when a component is node_modules.
InitialFlagsInverted(file_path, side_effects) ==
  flags_set(
    flags_set({"IS_BUNDLE_SPLITTABLE"}, "IS_SOURCE",
              \E i \in DOMAIN file_path : as_os_str(file_path[i]) = "node_modules"),
    "SIDE_EFFECTS", side_effects)

\* asset_request.rs:44-52: the flags of the initial asset.
InitialFlags(file_path, side_effects) ==
  flags_set(
    flags_set({"IS_BUNDLE_SPLITTABLE"}, "IS_SOURCE",
              ~ \E i \in DOMAIN file_path : as_os_str(file_path[i]) = "node_modules"),
    "SIDE_EFFECTS", side_effects)

\* asset_request.rs:54-75: the initial Asset (the fields the model follows).
InitialAsset(request) ==
  [file_path |-> request.file_path,
   env |-> request.env,
   asset_type |-> AssetType_from_extension(extension(request.file_path)),
   content_key |-> HashZero,
   output_hash |-> HashZero,
   pipeline |-> request.pipeline,
   size |-> 0,
   flags |-> InitialFlags(request.file_path, request.side_effects)]

\* asset_request.rs:77-79 with unwrap_or: the file is read whether or not the
\* request carries code.
obtain_codeEager(code, file_path, read) ==
  [reads |-> <<file_path>>,
   bytes |-> IF code # None /\ read.ok THEN Ok(code[1]) ELSE read]

\* asset_request.rs:77-79: self.code.unwrap_or_else(|| input_fs.read(..).unwrap()),
\* with `read` for what input_fs.read(file_path) returns when called. `reads` are
\* the read calls made, `bytes` the code, or the error that the unwrap panics on.
obtain_code(code, file_path, read) ==
  IF code # None THEN [reads |-> <<>>, bytes |-> Ok(code[1])]
  ELSE [reads |-> <<file_path>>, bytes |-> read]

InvalidateOnFileUpdate(path) == [kind |-> "InvalidateOnFileUpdate", path |-> path]

\* TransformerResult
TransformerResult(asset, code, dependencies, invalidations) ==
  [asset |-> asset, code |-> code, dependencies |-> dependencies,
   invalidations |-> invalidations]

\* run_pipeline's loop body that goes on to the next transformer whatever
\* run_transformer returned.
run_pipeline_iterNoStop(map, chain, idx, result, transformed) ==
  IF ~transformed.ok
  THEN [state |-> "loop", query |-> None, chain |-> chain, idx |-> idx + 1,
        result |-> result]
  ELSE LET t == transformed.val
           changed == t.asset.asset_type # result.asset.asset_type
           next_path == with_extension(t.asset.file_path,
                                       AssetType_extension(t.asset.asset_type))
           next_pipeline == PipelineMap_get(map, next_path, t.asset.pipeline)
           query == IF changed
                    THEN Some([path |-> next_path, pipeline |-> t.asset.pipeline])
                    ELSE None
       IN  IF changed /\ next_pipeline # chain
           THEN [state |-> "loop", query |-> query, chain |-> next_pipeline, idx |-> 1,
                 result |-> TransformerResult(t.asset, t.code, <<>>, <<>>)]
           ELSE [state |-> "loop", query |-> query, chain |-> chain, idx |-> idx + 1,
                 result |-> TransformerResult(t.asset, t.code,
                              result.dependencies \o t.dependencies,
                              result.invalidations \o t.invalidations)]

\* run_pipeline's loop body that restarts on every change of asset_type.
run_pipeline_iterAlwaysRestart(map, chain, idx, result, transformed) ==
  IF ~transformed.ok
  THEN [state |-> "err", query |-> None, diags |-> transformed.diags]
  ELSE LET t == transformed.val
           changed == t.asset.asset_type # result.asset.asset_type
           next_path == with_extension(t.asset.file_path,
                                       AssetType_extension(t.asset.asset_type))
           next_pipeline == PipelineMap_get(map, next_path, t.asset.pipeline)
           query == IF changed
                    THEN Some([path |-> next_path, pipeline |-> t.asset.pipeline])
                    ELSE None
       IN  IF changed
           THEN [state |-> "loop", query |-> query, chain |-> next_pipeline, idx |-> 1,
                 result |-> TransformerResult(t.asset, t.code, <<>>, <<>>)]
           ELSE [state |-> "loop", query |-> query, chain |-> chain, idx |-> idx + 1,
                 result |-> TransformerResult(t.asset, t.code,
                              result.dependencies \o t.dependencies,
                              result.invalidations \o t.invalidations)]

\* asset_request.rs:145-169: one iteration of `for transformer in &pipeline`,
\* given what run_transformer returned for pipeline[idx]. `chain` is the pipeline
\* of the innermost run_pipeline call, `result` its accumulator. A restart is the
\* tail call `return run_pipeline(next_pipeline, ...)`: a new chain from its first
\* transformer with a fresh accumulator.
run_pipeline_iter(map, chain, idx, result, transformed) ==
  IF ~transformed.ok
  THEN [state |-> "err", query |-> None, diags |-> transformed.diags]
  ELSE LET t == transformed.val
           changed == t.asset.asset_type # result.asset.asset_type
           next_path == with_extension(t.asset.file_path,
                                       AssetType_extension(t.asset.asset_type))
           next_pipeline == PipelineMap_get(map, next_path, t.asset.pipeline)
           query == IF changed
                    THEN Some([path |-> next_path, pipeline |-> t.asset.pipeline])
                    ELSE None
       IN  IF changed /\ next_pipeline # chain
           THEN [state |-> "loop", query |-> query, chain |-> next_pipeline, idx |-> 1,
                 result |-> TransformerResult(t.asset, t.code, <<>>, <<>>)]
           ELSE [state |-> "loop", query |-> query, chain |-> chain, idx |-> idx + 1,
                 result |-> TransformerResult(t.asset, t.code,
                              result.dependencies \o t.dependencies,
                              result.invalidations \o t.invalidations)]

\* run_pipeline refusing an empty pipeline with no diagnostics.
run_pipeline_exitNonEmpty(chain, idx, result) ==
  IF chain = <<>> THEN Some(Err(<<>>))
  ELSE IF idx > Len(chain) THEN Some(Ok(result)) ELSE None

\* asset_request.rs:145, 171: the `for` loop is over once idx is past the
\* pipeline, at once for an empty one, and run_pipeline returns Ok(result).
\* None: the loop goes on.
run_pipeline_exit(chain, idx, result) ==
  IF idx > Len(chain) THEN Some(Ok(result)) ELSE None

\* asset_request.rs:82-107 pushing the invalidation in the Ok arm only.
AssetRequest_finishOkOnly(file_path, piped) ==
  IF piped.ok
  THEN LET r == piped.val
           hashed == [r.asset EXCEPT !.output_hash = xxh3_64(r.code)]
           keyed == [hashed EXCEPT !.content_key = Asset_id(hashed)]
           sized == [keyed EXCEPT !.size = Len(r.code)]
       IN  [cache |-> <<[key |-> Format016x(sized.content_key), value |-> r.code]>>,
            ret |-> [result |-> Ok([asset |-> sized, dependencies |-> r.dependencies]),
                     invalidations |->
                       Append(r.invalidations, InvalidateOnFileUpdate(file_path))]]
  ELSE [cache |-> <<>>,
        ret |-> [result |-> Err(piped.diags), invalidations |-> <<>>]]

\* asset_request.rs:82-107 with the cache key formatted by "{:x}".
AssetRequest_finishUnpadded(file_path, piped) ==
  IF piped.ok
  THEN LET r == piped.val
           hashed == [r.asset EXCEPT !.output_hash = xxh3_64(r.code)]
           keyed == [hashed EXCEPT !.content_key = Asset_id(hashed)]
           sized == [keyed EXCEPT !.size = Len(r.code)]
       IN  [cache |-> <<[key |-> FormatLowerHex(sized.content_key), value |-> r.code]>>,
            ret |-> [result |-> Ok([asset |-> sized, dependencies |-> r.dependencies]),
                     invalidations |->
                       Append(r.invalidations, InvalidateOnFileUpdate(file_path))]]
  ELSE [cache |-> <<>>,
        ret |-> [result |-> Err(piped.diags),
                 invalidations |-> Append(<<>>, InvalidateOnFileUpdate(file_path))]]

\* asset_request.rs:82-107: what AssetRequest::run does with run_pipeline's
\* result `piped`: the cache.set calls it makes and the RequestResult it returns.
\* `as u32` of the length is the length: the model's code is far below 4 GiB.
AssetRequest_finish(file_path, piped) ==
  IF piped.ok
  THEN LET r == piped.val
           hashed == [r.asset EXCEPT !.output_hash = xxh3_64(r.code)]
           keyed == [hashed EXCEPT !.content_key = Asset_id(hashed)]
           sized == [keyed EXCEPT !.size = Len(r.code)]
       IN  [cache |-> <<[key |-> Format016x(sized.content_key), value |-> r.code]>>,
            ret |-> [result |-> Ok([asset |-> sized, dependencies |-> r.dependencies]),
                     invalidations |->
                       Append(r.invalidations, InvalidateOnFileUpdate(file_path))]]
  ELSE [cache |-> <<>>,
        ret |-> [result |-> Err(piped.diags),
                 invalidations |-> Append(<<>>, InvalidateOnFileUpdate(file_path))]]

----------------------------------------------------------------------------
(* crates/core/src/lib.rs: Parcel::build over the RequestTracker. A        *)
(* request key is <<request type, file>>.                                  *)

ConfigKey == <<"ParcelConfigRequest", "">>

AssetKey(file) == <<"AssetRequest", file>>

\* The files of the project and the FileEvents the host may deliver.
Files == {"a.js", "b.js", "c.js"}

FileEvents == [path : Files, kind : {"update", "delete"}]

\* The import graphs of the model: the files each file's dependencies resolve to.
ImportGraphs ==
  { [f \in Files |-> IF f = "a.js" THEN <<"b.js">> ELSE <<>>],
    [f \in Files |-> IF f = "a.js" THEN <<"b.js", "c.js">>
                     ELSE IF f = "b.js" THEN <<"c.js">> ELSE <<>>] }

\* RequestTracker::new
RequestTracker_new == [cache |-> <<>>, dirty |-> {}, edges |-> {}]

\* Whether a FileEvent triggers an Invalidation.
Matches(event, invalidation) ==
  \/ event.kind = "update" /\ invalidation.kind = "InvalidateOnFileUpdate"
       /\ invalidation.path = event.path
  \/ event.kind = "delete" /\ invalidation.kind = "InvalidateOnFileDelete"
       /\ invalidation.path = event.path

\* The requests of `keys` and their parents along the in-edges, transitively.
RECURSIVE WithParents(_, _)
WithParents(keys, edges) ==
  LET up == keys \cup {e[1] : e \in {d \in edges : d[2] \in keys}} IN
  IF up = keys THEN keys ELSE WithParents(up, edges)

\* RequestTracker::next_build(events)
next_build(tracker, events) ==
  LET hit == {k \in DOMAIN tracker.cache :
                \E e \in events : \E i \in tracker.cache[k] : Matches(e, i)} IN
  [tracker EXCEPT !.dirty = tracker.dirty \cup WithParents(hit, tracker.edges)]

\* RequestTracker::run_request(req) for a request that would record
\* `invalidations`: a clean cached result is returned without running it.
run_request(tracker, key, invalidations) ==
  IF key \in DOMAIN tracker.cache /\ key \notin tracker.dirty
  THEN [ran |-> FALSE, tracker |-> tracker]
  ELSE [ran |-> TRUE,
        tracker |-> [tracker EXCEPT
          !.cache = [k \in DOMAIN tracker.cache \cup {key} |->
                       IF k = key THEN invalidations ELSE tracker.cache[k]],
          !.dirty = tracker.dirty \ {key}]]

\* AssetGraphRequest::build: an Asset Request per file reachable from the
\* entries, each file once. Each request records what AssetRequest::run returns
\* for a transformer chain that adds no invalidation: InvalidateOnFileUpdate of
\* its own file (asset_request.rs:102).
RECURSIVE AssetGraphRequest_build(_, _, _, _, _)
AssetGraphRequest_build(tracker, queue, visited, imports, executed) ==
  IF queue = <<>>
  THEN [tracker |-> tracker, executed |-> executed]
  ELSE LET file == Head(queue) IN
       IF file \in visited
       THEN AssetGraphRequest_build(tracker, Tail(queue), visited, imports, executed)
       ELSE LET r == run_request(tracker, AssetKey(file),
                                 {InvalidateOnFileUpdate(file)}) IN
            AssetGraphRequest_build(r.tracker, Tail(queue) \o imports[file],
                                    visited \cup {file}, imports,
                                    IF r.ran THEN executed \cup {AssetKey(file)}
                                             ELSE executed)

\* lib.rs:39-55: Parcel::build(events). `config` is what ParcelConfigRequest::run
\* returns as its result; the unwrap of an Err panics. `result` is what build
\* returns, when it returns: the asset graph that AssetGraphRequest::build gave.
Parcel_build(tracker, entries, imports, events, config) ==
  LET t == next_build(tracker, events) IN
  IF ~config.ok
  THEN [tracker |-> t, executed |-> {ConfigKey}, outcome |-> "panicked",
        result |-> None]
  ELSE LET g == AssetGraphRequest_build(t, entries, {}, imports, {ConfigKey}) IN
       [tracker |-> g.tracker, executed |-> g.executed, outcome |-> "returned",
        result |-> Some(Ok("AssetGraph"))]

----------------------------------------------------------------------------
(* crates/parcel_plugin_rpc/src/nodejs/worker_init.rs. A Vec and the queue *)
(* of an mpsc channel are sequences; a NodejsWorker is a number, and a     *)
(* Sender<NodejsWorker> is the number of the get_worker call whose         *)
(* channel() made it.                                                      *)

\* enum WorkerInitMessage
Subscribe(subscriber) == [type |-> "Subscribe", subscriber |-> subscriber]

Register(worker) == [type |-> "Register", worker |-> worker]

\* Vec::pop: the last element if there is one, and the rest.
Vec_pop(v) ==
  IF v = <<>> THEN [some |-> None, rest |-> v]
  ELSE [some |-> Some(v[Len(v)]), rest |-> SubSeq(v, 1, Len(v) - 1)]

\* dispatch handing a subscriber the last worker without taking it from
\* `workers`.
dispatchKeepWorker(msg, subs, wrks) ==
  IF msg.type = "Subscribe"
  THEN LET w == Vec_pop(wrks) IN
       IF w.some # None
       THEN [subscribers |-> subs, workers |-> wrks,
             send |-> <<[to |-> msg.subscriber, worker |-> w.some[1]]>>]
       ELSE [subscribers |-> Append(subs, msg.subscriber), workers |-> wrks,
             send |-> <<>>]
  ELSE LET sub == Vec_pop(subs) IN
       IF sub.some # None
       THEN [subscribers |-> sub.rest, workers |-> wrks,
             send |-> <<[to |-> sub.some[1], worker |-> msg.worker]>>]
       ELSE [subscribers |-> subs, workers |-> Append(wrks, msg.worker),
             send |-> <<>>]

\* dispatch keeping every registered worker in `workers`, whoever waits.
dispatchNoWake(msg, subs, wrks) ==
  IF msg.type = "Subscribe"
  THEN LET w == Vec_pop(wrks) IN
       IF w.some # None
       THEN [subscribers |-> subs, workers |-> w.rest,
             send |-> <<[to |-> msg.subscriber, worker |-> w.some[1]]>>]
       ELSE [subscribers |-> Append(subs, msg.subscriber), workers |-> wrks,
             send |-> <<>>]
  ELSE [subscribers |-> subs, workers |-> Append(wrks, msg.worker), send |-> <<>>]

\* dispatch pushing every subscriber onto `subscribers`, whatever `workers`
\* holds.
dispatchAlwaysQueue(msg, subs, wrks) ==
  IF msg.type = "Subscribe"
  THEN [subscribers |-> Append(subs, msg.subscriber), workers |-> wrks, send |-> <<>>]
  ELSE LET sub == Vec_pop(subs) IN
       IF sub.some # None
       THEN [subscribers |-> sub.rest, workers |-> wrks,
             send |-> <<[to |-> sub.some[1], worker |-> msg.worker]>>]
       ELSE [subscribers |-> subs, workers |-> Append(wrks, msg.worker),
             send |-> <<>>]

\* The body of the dispatcher's loop (worker_init.rs:23-38) for one message:
\* the two vectors after it, and the subscriber.send(..) it made.
dispatch(msg, subs, wrks) ==
  IF msg.type = "Subscribe"
  THEN LET w == Vec_pop(wrks) IN
       IF w.some # None
       THEN [subscribers |-> subs, workers |-> w.rest,
             send |-> <<[to |-> msg.subscriber, worker |-> w.some[1]]>>]
       ELSE [subscribers |-> Append(subs, msg.subscriber), workers |-> wrks,
             send |-> <<>>]
  ELSE LET sub == Vec_pop(subs) IN
       IF sub.some # None
       THEN [subscribers |-> sub.rest, workers |-> wrks,
             send |-> <<[to |-> sub.some[1], worker |-> msg.worker]>>]
       ELSE [subscribers |-> subs, workers |-> Append(wrks, msg.worker),
             send |-> <<>>]

----------------------------------------------------------------------------
(* The parts of the state a specification leaves alone.                    *)

AllocIdle ==
  /\ pages = <<>>
  /\ arena_addr = 1
  /\ heap = <<>>
  /\ free_head = 1
  /\ elem_size = 1
  /\ live = {}
  /\ hist = <<>>
  /\ pre = [free_head |-> 1, heap |-> <<>>]
  /\ ub = FALSE

AssetIdle ==
  /\ self = None
  /\ fs = None
  /\ pc = "idle"
  /\ cur_chain = <<>>
  /\ cur_idx = 1
  /\ cur_result = None
  /\ pipeline_result = None
  /\ calls = <<>>
  /\ lookups = <<>>
  /\ fs_reads = <<>>
  /\ cache_sets = <<>>
  /\ request_result = None

BuildIdle ==
  /\ project = None
  /\ request_tracker = RequestTracker_new
  /\ builds = <<>>

WorkerIdle ==
  /\ spawned = FALSE
  /\ rx_subscribe = <<>>
  /\ subscribers = <<>>
  /\ workers = <<>>
  /\ get_worker_calls = <<>>
  /\ registered = <<>>
  /\ parked = {}

----------------------------------------------------------------------------
(* The Slab<T> of one thread over a fresh heap and a fresh arena, driven   *)
(* by a caller that frees only runs it holds.                              *)

InitSlab ==
  /\ pages = <<>>
  /\ arena_addr = 1
  /\ heap = <<>>
  /\ free_head = 1
  /\ elem_size \in ElemSizes
  /\ live = {}
  /\ hist = <<>>
  /\ pre = [free_head |-> 1, heap |-> <<>>]
  /\ ub = FALSE
  /\ AssetIdle
  /\ BuildIdle
  /\ WorkerIdle

SlabAlloc ==
  /\ ~ub
  /\ Len(hist) < MaxOps
  /\ \E count \in Counts, sys \in Sys(pages) :
       LET r == Slab_alloc(heap, free_head, arena_addr, pages, elem_size, count, sys) IN
       /\ SysUsed(pages, sys, r)
       /\ ub' = r.ub
       /\ heap' = r.heap
       /\ free_head' = r.free_head
       /\ arena_addr' = r.addr
       /\ pages' = r.pages
       /\ live' = live \cup {<<r.ret, count>>}
       /\ hist' = Append(hist, [op |-> "alloc", count |-> count, addr |-> r.ret])
       /\ pre' = [free_head |-> free_head, heap |-> heap]
  /\ UNCHANGED <<elem_size, assetVars, buildVars, workerVars>>

SlabDealloc ==
  /\ ~ub
  /\ Len(hist) < MaxOps
  /\ \E run \in live :
       LET r == Slab_dealloc(heap, free_head, run[1], run[2]) IN
       /\ heap' = r.heap
       /\ free_head' = r.free_head
       /\ live' = live \ {run}
       /\ hist' = Append(hist, [op |-> "dealloc", count |-> run[2], addr |-> run[1]])
       /\ pre' = [free_head |-> free_head, heap |-> heap]
  /\ UNCHANGED <<pages, arena_addr, elem_size, ub, assetVars, buildVars, workerVars>>

NextSlab == SlabAlloc \/ SlabDealloc

Spec == InitSlab /\ [][NextSlab]_vars

----------------------------------------------------------------------------
(* The Arena of one thread over a fresh heap, driven by a caller that      *)
(* releases only allocations it holds, each with the Layout it asked for.  *)
(* hist[n] is [op, count |-> size, addr, cursor |-> Arena.addr before the   *)
(* call]; live holds <<addr, size, n>>.                                    *)

\* What a read of the cursor's page may yield to Arena::dealloc of the held
\* allocation <<addr, size>> when that page does not exist: a pointer that puts
\* the cursor at the end of the allocation, or one that does not.
WildPtrs(cursor, pgs, addr, size) ==
  LET none == [ptr |-> 0, len |-> 0] IN
  IF cursor # 1 /\ unpack_addr(cursor).page_index >= Len(pgs)
  THEN {none, [ptr |-> get(pgs, addr, none) + RoundUp8(size) - unpack_addr(cursor).offset,
               len |-> 0]}
  ELSE {none}

InitArena ==
  /\ AllocIdle
  /\ AssetIdle
  /\ BuildIdle
  /\ WorkerIdle

ArenaAlloc ==
  /\ ~ub
  /\ Len(hist) < MaxArenaOps
  /\ \E size \in ArenaSizes, sys \in Sys(pages) :
       LET r == Arena_alloc(arena_addr, pages, size, sys) IN
       /\ SysUsed(pages, sys, r)
       /\ ub' = r.ub
       /\ arena_addr' = r.addr
       /\ pages' = r.pages
       /\ live' = live \cup {<<r.ret, size, Len(hist) + 1>>}
       /\ hist' = Append(hist, [op |-> "alloc", count |-> size, addr |-> r.ret,
                                cursor |-> arena_addr])
  /\ UNCHANGED <<heap, free_head, elem_size, pre, assetVars, buildVars, workerVars>>

ArenaDealloc ==
  /\ ~ub
  /\ Len(hist) < MaxArenaOps
  /\ \E a \in live : \E wild \in WildPtrs(arena_addr, pages, a[1], a[2]) :
       LET r == Arena_dealloc(arena_addr, pages, get(pages, a[1], wild), a[2], wild) IN
       /\ arena_addr' = r.addr
       /\ ub' = r.ub
       /\ live' = live \ {a}
       /\ hist' = Append(hist, [op |-> "dealloc", count |-> a[2], addr |-> a[1],
                                cursor |-> arena_addr])
  /\ UNCHANGED <<pages, heap, free_head, elem_size, pre, assetVars, buildVars, workerVars>>

NextArena == ArenaAlloc \/ ArenaDealloc

SpecArena == InitArena /\ [][NextArena]_vars

----------------------------------------------------------------------------
(* One thread's Slab<T> and other users of its Arena (the thread-local     *)
(* ARENA serves both). hist[n] carries `api`: "slab" or "arena"; live      *)
(* holds <<addr, count>> for a slab run and <<addr, size, n>> for an       *)
(* arena allocation.                                                       *)

\* size_of::<T>() of the Slab<T>: a byte and a pair of u32.
HeapElemSizes == {1, 8}

HeapCounts == {1, 2}

HeapSizes == {7, 8}

InitHeap ==
  /\ pages = <<>>
  /\ arena_addr = 1
  /\ heap = <<>>
  /\ free_head = 1
  /\ elem_size \in HeapElemSizes
  /\ live = {}
  /\ hist = <<>>
  /\ pre = [free_head |-> 1, heap |-> <<>>]
  /\ ub = FALSE
  /\ AssetIdle
  /\ BuildIdle
  /\ WorkerIdle

HeapSlabAlloc ==
  /\ ~ub
  /\ Len(hist) < MaxHeapOps
  /\ \E count \in HeapCounts, sys \in Sys(pages) :
       LET r == Slab_alloc(heap, free_head, arena_addr, pages, elem_size, count, sys) IN
       /\ SysUsed(pages, sys, r)
       /\ ub' = r.ub
       /\ heap' = r.heap
       /\ free_head' = r.free_head
       /\ arena_addr' = r.addr
       /\ pages' = r.pages
       /\ live' = live \cup {<<r.ret, count>>}
       /\ hist' = Append(hist, [api |-> "slab", op |-> "alloc", count |-> count,
                                addr |-> r.ret])
       /\ pre' = [free_head |-> free_head, heap |-> heap]
  /\ UNCHANGED <<elem_size, assetVars, buildVars, workerVars>>

HeapSlabDealloc ==
  /\ ~ub
  /\ Len(hist) < MaxHeapOps
  /\ \E run \in {a \in live : Len(a) = 2} :
       LET r == Slab_dealloc(heap, free_head, run[1], run[2]) IN
       /\ heap' = r.heap
       /\ free_head' = r.free_head
       /\ live' = live \ {run}
       /\ hist' = Append(hist, [api |-> "slab", op |-> "dealloc", count |-> run[2],
                                addr |-> run[1]])
       /\ pre' = [free_head |-> free_head, heap |-> heap]
  /\ UNCHANGED <<pages, arena_addr, elem_size, ub, assetVars, buildVars, workerVars>>

HeapArenaAlloc ==
  /\ ~ub
  /\ Len(hist) < MaxHeapOps
  /\ \E size \in HeapSizes, sys \in Sys(pages) :
       LET r == Arena_alloc(arena_addr, pages, size, sys) IN
       /\ SysUsed(pages, sys, r)
       /\ ub' = r.ub
       /\ arena_addr' = r.addr
       /\ pages' = r.pages
       /\ live' = live \cup {<<r.ret, size, Len(hist) + 1>>}
       /\ hist' = Append(hist, [api |-> "arena", op |-> "alloc", count |-> size,
                                addr |-> r.ret])
  /\ UNCHANGED <<heap, free_head, elem_size, pre, assetVars, buildVars, workerVars>>

HeapArenaDealloc ==
  /\ ~ub
  /\ Len(hist) < MaxHeapOps
  /\ \E a \in {b \in live : Len(b) = 3} :
       \E wild \in WildPtrs(arena_addr, pages, a[1], a[2]) :
       LET r == Arena_dealloc(arena_addr, pages, get(pages, a[1], wild), a[2], wild) IN
       /\ arena_addr' = r.addr
       /\ ub' = r.ub
       /\ live' = live \ {a}
       /\ hist' = Append(hist, [api |-> "arena", op |-> "dealloc", count |-> a[2],
                                addr |-> a[1]])
  /\ UNCHANGED <<pages, heap, free_head, elem_size, pre, assetVars, buildVars, workerVars>>

NextHeap == HeapSlabAlloc \/ HeapSlabDealloc \/ HeapArenaAlloc \/ HeapArenaDealloc

SpecHeap == InitHeap /\ [][NextHeap]_vars

----------------------------------------------------------------------------
(* One AssetRequest::run. The request, the file system and what each       *)
(* run_transformer call returns are the inputs.                            *)

Paths ==
  { <<Comp("a", "ts")>>,
    <<Comp("pkg", ""), Comp("node_modules", ""), Comp("x", "js")>>,
    <<Comp("src", ""), Comp("node_modules", "js")>>,
    <<Comp("node_modules", ""), Comp("b", "ts")>> }

Requests ==
  [transformers : PipelineMaps, file_path : Paths, code : {None, Some(<<1>>)},
   pipeline : PipelineNames, env : {"env"}, side_effects : BOOLEAN]

\* input_fs.read: the bytes of the file, or an error.
FsResults == {Ok(<<2, 3>>), Err("read")}

\* What run_transformer may return for plugin `t`, as its n-th call of the run, on
\* (asset, code): diagnostics, or the asset with any asset_type, the code with a
\* byte of the plugin's added, and the dependencies and invalidations it found.
TransformResults(t, asset, code, n) ==
  {Err(<<[plugin |-> t, call |-> n]>>)} \cup
  { Ok(TransformerResult(
         [asset EXCEPT !.asset_type = type],
         Append(code, IF t = "tA" THEN 10 ELSE 11),
         IF emits THEN <<[specifier |-> t, call |-> n]>> ELSE <<>>,
         IF emits THEN <<[kind |-> "InvalidateOnFileCreate", path |-> <<t, n>>]>>
                  ELSE <<>>)) :
    type \in AssetTypes, emits \in BOOLEAN }

InitAsset ==
  /\ AllocIdle
  /\ BuildIdle
  /\ WorkerIdle
  /\ self \in Requests
  /\ fs \in FsResults
  /\ pc = "start"
  /\ cur_chain = <<>>
  /\ cur_idx = 1
  /\ cur_result = None
  /\ pipeline_result = None
  /\ calls = <<>>
  /\ lookups = <<>>
  /\ fs_reads = <<>>
  /\ cache_sets = <<>>
  /\ request_result = None

\* asset_request.rs:36-80: run up to its call of run_pipeline, and run_pipeline
\* up to its first run_transformer call.
RunStart ==
  /\ pc = "start"
  /\ lookups' = <<[path |-> self.file_path, pipeline |-> self.pipeline]>>
  /\ LET got == obtain_code(self.code, self.file_path, fs) IN
       /\ fs_reads' = got.reads
       /\ IF ~got.bytes.ok
          THEN /\ pc' = "panicked"
               /\ UNCHANGED <<cur_chain, cur_idx, cur_result, pipeline_result>>
          ELSE LET pipeline == PipelineMap_get(self.transformers, self.file_path,
                                               self.pipeline)
                   r == TransformerResult(InitialAsset(self), got.bytes.val, <<>>, <<>>)
               IN  /\ pc' = "pipeline"
                   /\ cur_chain' = pipeline
                   /\ cur_idx' = 1
                   /\ cur_result' = Some(r)
                   /\ pipeline_result' = run_pipeline_exit(pipeline, 1, r)
  /\ UNCHANGED <<self, fs, calls, cache_sets, request_result, allocVars, buildVars, workerVars>>

\* asset_request.rs:145-171: one iteration of run_pipeline's loop, and its return
\* when that was the last.
Transform ==
  /\ pc = "pipeline"
  /\ pipeline_result = None
  /\ cur_idx <= Len(cur_chain)
  /\ Len(calls) < MaxCalls
  /\ \E transformed \in TransformResults(cur_chain[cur_idx], cur_result[1].asset,
                                          cur_result[1].code, Len(calls) + 1) :
       LET s == run_pipeline_iter(self.transformers, cur_chain, cur_idx,
                                  cur_result[1], transformed) IN
       /\ calls' = Append(calls,
            [plugin |-> cur_chain[cur_idx], chain |-> cur_chain, idx |-> cur_idx,
             asset |-> cur_result[1].asset, code |-> cur_result[1].code,
             out |-> transformed])
       /\ lookups' = lookups \o s.query
       /\ IF s.state = "err"
          THEN /\ pipeline_result' = Some(Err(s.diags))
               /\ UNCHANGED <<cur_chain, cur_idx, cur_result>>
          ELSE /\ cur_chain' = s.chain
               /\ cur_idx' = s.idx
               /\ cur_result' = Some(s.result)
               /\ pipeline_result' = run_pipeline_exit(s.chain, s.idx, s.result)
  /\ UNCHANGED <<self, fs, pc, fs_reads, cache_sets, request_result, allocVars, buildVars, workerVars>>

\* asset_request.rs:82-107: run after run_pipeline has returned.
RunReturn ==
  /\ pc = "pipeline"
  /\ pipeline_result # None
  /\ LET f == AssetRequest_finish(self.file_path, pipeline_result[1]) IN
       /\ cache_sets' = cache_sets \o f.cache
       /\ request_result' = Some(f.ret)
  /\ pc' = "returned"
  /\ UNCHANGED <<self, fs, cur_chain, cur_idx, cur_result, pipeline_result, calls,
                 lookups, fs_reads, allocVars, buildVars, workerVars>>

NextAsset == RunStart \/ Transform \/ RunReturn

SpecAsset == InitAsset /\ [][NextAsset]_vars

----------------------------------------------------------------------------
(* AssetRequest::run with plugins that are functions of their input, and   *)
(* without the logs of calls and lookups: the state is what the program    *)
(* itself holds, so a run that never ends is a cycle of states. Up to the  *)
(* return of run_pipeline every step that can be taken is taken (weak      *)
(* fairness): the program does not stop between two statements.            *)

\* The asset_type each plugin gives its output.
PluginOutputType == [tA |-> "js", tB |-> "ts"]

\* run_transformer for a plugin that returns the code as it got it, the asset
\* with the plugin's output type, and nothing else.
run_transformer(t, asset, code) ==
  Ok(TransformerResult([asset EXCEPT !.asset_type = PluginOutputType[t]], code,
                       <<>>, <<>>))

\* asset_request.rs:145-171: one iteration of run_pipeline's loop, and its return
\* when that was the last.
TransformStep ==
  /\ pc = "pipeline"
  /\ pipeline_result = None
  /\ cur_idx <= Len(cur_chain)
  /\ LET transformed == run_transformer(cur_chain[cur_idx], cur_result[1].asset,
                                        cur_result[1].code)
         s == run_pipeline_iter(self.transformers, cur_chain, cur_idx,
                                cur_result[1], transformed) IN
       /\ cur_chain' = s.chain
       /\ cur_idx' = s.idx
       /\ cur_result' = Some(s.result)
       /\ pipeline_result' = run_pipeline_exit(s.chain, s.idx, s.result)
  /\ UNCHANGED <<self, fs, pc, calls, lookups, fs_reads, cache_sets, request_result,
                 allocVars, buildVars, workerVars>>

NextPipeline == RunStart \/ TransformStep \/ RunReturn

SpecPipeline ==
  InitAsset /\ [][NextPipeline]_vars /\ WF_vars(RunStart) /\ WF_vars(TransformStep)

----------------------------------------------------------------------------
(* One Parcel and the builds made with it.                                 *)

\* What ParcelConfigRequest::run returns as its result.
ConfigResults == {Ok("config"), Err(<<"config">>)}

InitBuild ==
  /\ AllocIdle
  /\ AssetIdle
  /\ WorkerIdle
  /\ project \in [entries : {<<"a.js">>}, imports : ImportGraphs]
  /\ request_tracker = RequestTracker_new
  /\ builds = <<>>

Build ==
  /\ Len(builds) < MaxBuilds
  /\ \A n \in 1..Len(builds) : builds[n].outcome # "panicked"
  /\ \E events \in SUBSET FileEvents, config \in ConfigResults :
       LET b == Parcel_build(request_tracker, project.entries, project.imports,
                             events, config)
       IN  /\ request_tracker' = b.tracker
           /\ builds' = Append(builds,
                [events |-> events, config |-> config, executed |-> b.executed,
                 outcome |-> b.outcome, result |-> b.result,
                 dirty |-> next_build(request_tracker, events).dirty,
                 known |-> DOMAIN request_tracker.cache])
  /\ UNCHANGED <<project, allocVars, assetVars, workerVars>>

NextBuild == Build

SpecBuild == InitBuild /\ [][NextBuild]_vars

----------------------------------------------------------------------------
(* get_worker and register_worker called from any threads, and the         *)
(* dispatcher thread. Sending on an mpsc channel is one step, and so is    *)
(* the dispatcher's receiving a message and handling it: `subscribers` and *)
(* `workers` are its own.                                                  *)

GetCalls == 1..MaxGetCalls

InitWorker ==
  /\ spawned = FALSE
  /\ rx_subscribe = <<>>
  /\ subscribers = <<>>
  /\ workers = <<>>
  /\ get_worker_calls = [c \in GetCalls |-> [pc |-> "idle", rx |-> <<>>, ret |-> None]]
  /\ registered = <<>>
  /\ parked = {}
  /\ AllocIdle
  /\ AssetIdle
  /\ BuildIdle

\* get_worker, up to rx.recv() (worker_init.rs:46-47)
GetWorkerSend ==
  \E c \in GetCalls :
    /\ get_worker_calls[c].pc = "idle"
    /\ spawned' = TRUE
    /\ rx_subscribe' = Append(rx_subscribe, Subscribe(c))
    /\ get_worker_calls' = [get_worker_calls EXCEPT ![c].pc = "waiting"]
    /\ UNCHANGED <<subscribers, workers, registered, parked,
                   allocVars, assetVars, buildVars>>

\* get_worker: rx.recv().unwrap() returns (worker_init.rs:48)
GetWorkerRecv ==
  \E c \in GetCalls :
    /\ get_worker_calls[c].pc = "waiting"
    /\ get_worker_calls[c].rx # <<>>
    /\ get_worker_calls' =
         [get_worker_calls EXCEPT ![c] = [pc |-> "returned", rx |-> Tail(@.rx),
                                         ret |-> Some(Head(@.rx))]]
    /\ UNCHANGED <<spawned, rx_subscribe, subscribers, workers, registered, parked,
                   allocVars, assetVars, buildVars>>

\* register_worker(worker) (worker_init.rs:51-55). A NodejsWorker is moved
\* into the call: the caller passes each worker once.
RegisterWorker ==
  /\ Len(registered) < MaxWorkers
  /\ LET worker == Len(registered) + 1 IN
     /\ spawned' = TRUE
     /\ rx_subscribe' = Append(rx_subscribe, Register(worker))
     /\ registered' = Append(registered, worker)
  /\ UNCHANGED <<subscribers, workers, get_worker_calls, parked,
                 allocVars, assetVars, buildVars>>

\* One iteration of the dispatcher's loop (worker_init.rs:22-39)
Dispatch ==
  /\ spawned
  /\ rx_subscribe # <<>>
  /\ LET msg == Head(rx_subscribe)
         r == dispatch(msg, subscribers, workers) IN
     /\ rx_subscribe' = Tail(rx_subscribe)
     /\ subscribers' = r.subscribers
     /\ workers' = r.workers
     /\ get_worker_calls' =
          [c \in GetCalls |->
             IF r.send # <<>> /\ r.send[1].to = c
             THEN [get_worker_calls[c] EXCEPT !.rx = Append(@, r.send[1].worker)]
             ELSE get_worker_calls[c]]
     /\ parked' = IF msg.type = "Subscribe" /\ r.send = <<>>
                  THEN parked \cup {msg.subscriber} ELSE parked
  /\ UNCHANGED <<spawned, registered, allocVars, assetVars, buildVars>>

NextWorker == GetWorkerSend \/ GetWorkerRecv \/ RegisterWorker \/ Dispatch

\* The dispatcher thread and the threads in get_worker are scheduled fairly.
SpecWorker ==
  InitWorker /\ [][NextWorker]_vars /\ WF_vars(Dispatch) /\ WF_vars(GetWorkerRecv)

----------------------------------------------------------------------------
(* Properties of the Slab.                                                 *)

\* The free list, as the node addresses from `head` along the next fields.
RECURSIVE FreeList(_, _)
FreeList(h, head) ==
  IF head = 1 THEN <<>> ELSE <<head>> \o FreeList(h, NodeNext(h, head))

Last(s) == s[Len(s)]

Without(s, i) == SubSeq(s, 1, i - 1) \o SubSeq(s, i + 1, Len(s))

\* The calls of test_slab (alloc.rs:347-357) with the addresses it asserts.
TestSlabScript ==
  << [op |-> "alloc", count |-> 5, addr |-> 0],
     [op |-> "alloc", count |-> 2, addr |-> 40],
     [op |-> "dealloc", count |-> 5, addr |-> 0],
     [op |-> "alloc", count |-> 1, addr |-> 32],
     [op |-> "dealloc", count |-> 2, addr |-> 40],
     [op |-> "alloc", count |-> 4, addr |-> 0] >>

\* hist[j] is the j-th call of test_slab: the same operation and arguments.
FollowsScript(j) ==
  /\ j <= Len(TestSlabScript)
  /\ hist[j].op = TestSlabScript[j].op
  /\ hist[j].count = TestSlabScript[j].count
  /\ hist[j].op = "dealloc" => hist[j].addr = TestSlabScript[j].addr

\* What the last call, an alloc(count) that found the free list `fl` with a node
\* of at least count slots, must have done: taken the first such node.
FirstFitTaken(count, ret) ==
  LET fl == FreeList(pre.heap, pre.free_head)
      fits == {i \in 1..Len(fl) : NodeSlots(pre.heap, fl[i]) >= count}
      i == CHOOSE k \in fits : \A l \in fits : k <= l
      node == fl[i]
      slots == NodeSlots(pre.heap, node)
      now == FreeList(heap, free_head)
  IN  fits # {} =>
        /\ \A k \in 1..Len(fl) : k # i => NodeSlots(heap, fl[k]) = NodeSlots(pre.heap, fl[k])
        /\ IF slots > count
           THEN /\ now = fl
                /\ NodeSlots(heap, node) = slots - count
                /\ ret = node + elem_size * (slots - count)
           ELSE /\ now = Without(fl, i)
                /\ ret = node

\* C1: Slab::alloc(count), when the free list holds a node with slots >= count,
\* uses the first such node in list order: a larger node stays linked with its
\* slots reduced by count and the call returns node + size_of::<T>() * (slots
\* left); a node of exactly count slots is unlinked and the call returns its
\* address. For an 8-byte T on a fresh arena the calls of test_slab return
\* 0, 40, 32 and 0.
C1_AllocFirstFit ==
  /\ (hist # <<>> /\ Last(hist).op = "alloc") =>
        FirstFitTaken(Last(hist).count, Last(hist).addr)
  /\ \A n \in 1..Len(hist) :
        (elem_size = 8 /\ \A j \in 1..n : FollowsScript(j)) =>
          hist[n].addr = TestSlabScript[n].addr

\* C1 witness: test_slab has run to its end; its last alloc(4) passed the
\* 2-slot node at 40 and unlinked the 4-slot node at 0 behind it.
C1_Witness ==
  /\ elem_size = 8
  /\ hist = TestSlabScript
  /\ FreeList(pre.heap, pre.free_head) = <<40, 0>>
  /\ FreeList(heap, free_head) = <<40>>

\* hist[n-2 .. n] is alloc(k) = a; dealloc(a, k); alloc(k).
RoundTripAt(n) ==
  /\ n >= 3
  /\ hist[n - 2].op = "alloc"
  /\ hist[n - 1] = [op |-> "dealloc", count |-> hist[n - 2].count, addr |-> hist[n - 2].addr]
  /\ hist[n].op = "alloc"
  /\ hist[n].count = hist[n - 2].count

----------------------------------------------------------------------------
(* Properties of the Arena.                                                *)

\* The allocation hist[n] starts 8-byte aligned and its bytes lie in one page.
AlignedInPage(n) ==
  LET a == unpack_addr(hist[n].addr) IN
  /\ a.offset % 8 = 0
  /\ a.page_index < Len(pages)
  /\ a.offset + hist[n].count <= pages[a.page_index + 1].len

\* C3: every address Arena::alloc(n) returns is 8-byte aligned and the n bytes
\* from it lie inside one allocated page, after any alloc and dealloc calls.
C3_AlignedInPage ==
  \A n \in 1..Len(hist) : hist[n].op = "alloc" => AlignedInPage(n)

\* Byte offsets into a page: its first bytes, the last byte of the first 64 KiB
\* and the bytes after it.
ProbeOffsets == {0, 8, PAGE_SIZE - 1, PAGE_SIZE, PAGE_SIZE + 7}

\* C15: for every allocated page p and every offset o inside it,
\* pack_addr(p, o) is p * 2^16 + o and unpack_addr gives back (p, o).
C15_PackRoundTrip ==
  \A p \in DOMAIN pages : \A o \in ProbeOffsets :
    o < pages[p].len =>
      /\ pack_addr(p - 1, o) = (p - 1) * Pow2(PAGE_INDEX_SHIFT) + o
      /\ unpack_addr(pack_addr(p - 1, o)) = [page_index |-> p - 1, offset |-> o]

\* Pointers into the pages, and pointers into none: below the first page, and
\* past the end of each page where no other page begins.
InPage(ptr) == \E p \in DOMAIN pages : pages[p].ptr <= ptr /\ ptr < pages[p].ptr + pages[p].len

ProbePtrs ==
  {pages[p].ptr + o : p \in DOMAIN pages, o \in ProbeOffsets}
    \cup {HeapLo - 8} \cup PageEnds(pages)

\* C16: find_page(ptr) is Some(addr) with get(addr) = ptr for a pointer inside a
\* page, and None for a pointer inside no page.
C16_FindPage ==
  \A ptr \in ProbePtrs :
    LET found == find_page(pages, ptr) IN
    IF InPage(ptr)
    THEN found # None /\ get(pages, found[1], [ptr |-> 0, len |-> 0]) = ptr
    ELSE found = None

\* Arena.addr after the n-th call.
CursorAfter(n) == IF n < Len(hist) THEN hist[n + 1].cursor ELSE arena_addr

\* C14: a dealloc of the allocation made by the call just before it leaves the
\* cursor at the start address of that allocation, and an alloc of the same
\* size that follows returns that address; a dealloc of an allocation that does
\* not end at the cursor leaves the cursor as it was.
C14_LifoRelease ==
  \A n \in 1..Len(hist) :
    hist[n].op = "dealloc" =>
      /\ (n > 1 /\ hist[n - 1].op = "alloc" /\ hist[n - 1].addr = hist[n].addr
            /\ hist[n - 1].count = hist[n].count) =>
           /\ CursorAfter(n) = hist[n].addr
           /\ (n < Len(hist) /\ hist[n + 1].op = "alloc"
                 /\ hist[n + 1].count = hist[n].count) =>
                hist[n + 1].addr = hist[n].addr
      /\ hist[n].addr + RoundUp8(hist[n].count) # hist[n].cursor =>
           CursorAfter(n) = hist[n].cursor

\* The bytes of the allocation hist[n]: from get(addr), size rounded up to 8.
AllocStart(n) == get(pages, hist[n].addr, [ptr |-> 0, len |-> 0])

AllocEnd(n) == AllocStart(n) + RoundUp8(hist[n].count)

\* C19: as long as no dealloc has been called, the byte ranges of any two
\* allocations that Arena::alloc returned are disjoint.
C19_AllocationsDisjoint ==
  (\A n \in 1..Len(hist) : hist[n].op = "alloc") =>
    \A i, j \in 1..Len(hist) :
      i < j => (AllocEnd(i) <= AllocStart(j) \/ AllocEnd(j) <= AllocStart(i))

----------------------------------------------------------------------------
(* Properties of the Slab and the Arena together.                          *)

\* The addresses the loop of Slab::alloc(count) dereferences (alloc.rs:257) on
\* the free list from `addr`.
RECURSIVE WalkDerefs(_, _, _)
WalkDerefs(h, addr, count) ==
  <<addr>> \o (IF NodeSlots(h, addr) >= count \/ NodeNext(h, addr) = 1 THEN <<>>
               ELSE WalkDerefs(h, NodeNext(h, addr), count))

\* C13: no Arena::alloc and no Slab::alloc has returned the address 1, and the
\* walk of the last Slab::alloc dereferenced no address 1.
C13_NullHandleReserved ==
  /\ \A n \in 1..Len(hist) : hist[n].op = "alloc" => hist[n].addr # 1
  /\ (hist # <<>> /\ Last(hist).api = "slab" /\ Last(hist).op = "alloc"
        /\ pre.free_head # 1) =>
       \A i \in DOMAIN WalkDerefs(pre.heap, pre.free_head, Last(hist).count) :
         WalkDerefs(pre.heap, pre.free_head, Last(hist).count)[i] # 1

\* The bytes of a run of `run[2]` slots of the Slab<T> at run[1].
SlotBytes(run) == run[1] .. run[1] + elem_size * run[2] - 1

\* The heap bytes the last Slab call wrote.
LastSlabWrites ==
  IF Last(hist).op = "dealloc" THEN Slab_dealloc_writes(Last(hist).addr)
  ELSE Slab_alloc_writes(pre.heap, pre.free_head, Last(hist).count)

\* The runs the caller held before the last Slab call and still holds.
StillAllocated ==
  {run \in live : Len(run) = 2} \ {<<Last(hist).addr, Last(hist).count>>}

\* The last Slab call, if it was dealloc(addr, count), wrote heap bytes only
\* in [addr, addr + size_of::<T>() * count).
DeallocWritesInFreedRange ==
  (hist # <<>> /\ Last(hist).api = "slab" /\ Last(hist).op = "dealloc") =>
    LastSlabWrites \subseteq SlotBytes(<<Last(hist).addr, Last(hist).count>>)

\* The last Slab call, dealloc or alloc, wrote no byte of a run that is still
\* allocated.
LiveSlotsUntouched ==
  (hist # <<>> /\ Last(hist).api = "slab") =>
    \A run \in StillAllocated : LastSlabWrites \cap SlotBytes(run) = {}

\* C21: for every size_of::<T>() and every count >= 1, Slab::dealloc(addr,
\* count) writes heap bytes only inside the freed range, and neither a dealloc
\* nor the free-list update of a later alloc modifies a slot that is still
\* allocated.
C21_WritesInsideFreedRange == DeallocWritesInFreedRange /\ LiveSlotsUntouched

----------------------------------------------------------------------------
(* Properties of AssetRequest::run and run_pipeline.                       *)

\* The bytes run_pipeline hands back: what the last transformer returned, or
\* the input code when no transformer ran.
FinalBytes ==
  IF calls # <<>> THEN Last(calls).out.val.code
  ELSE IF self.code # None THEN self.code[1] ELSE fs.val

\* C5: whenever AssetRequest::run has returned, with an asset or with
\* diagnostics, the returned invalidations are those of run_pipeline (none on
\* failure) followed by InvalidateOnFileUpdate of the request's file_path as the
\* last element.
C5_OwnFileInvalidationLast ==
  pc = "returned" =>
    LET inv == request_result[1].invalidations
        piped == pipeline_result[1]
    IN  /\ inv # <<>>
        /\ Last(inv) = InvalidateOnFileUpdate(self.file_path)
        /\ SubSeq(inv, 1, Len(inv) - 1) =
             (IF piped.ok THEN piped.val.invalidations ELSE <<>>)

\* C5 witness: run has returned the diagnostics of a transformer.
C5_Witness ==
  /\ pc = "returned"
  /\ calls # <<>>
  /\ ~request_result[1].result.ok
  /\ request_result[1].invalidations = <<InvalidateOnFileUpdate(self.file_path)>>

\* C6: a run_transformer call that returned diagnostics is the last call of the
\* run, run_pipeline returns exactly its diagnostics and so does run, and no
\* cache.set call is made.
C6_FailurePropagation ==
  \A n \in 1..Len(calls) :
    ~calls[n].out.ok =>
      /\ n = Len(calls)
      /\ pipeline_result = Some(Err(calls[n].out.diags))
      /\ cache_sets = <<>>
      /\ pc = "returned" => request_result[1].result = Err(calls[n].out.diags)

\* C6 witness: run has returned after a transformer of a restarted chain failed.
C6_Witness ==
  /\ pc = "returned"
  /\ Len(calls) >= 2
  /\ ~Last(calls).out.ok
  /\ Last(calls).chain # calls[1].chain
  /\ Last(calls).idx = 1

\* What the n-th run_transformer call changed the asset_type to, and the chain
\* the transformer map holds for it.
TypeChanged(n) == calls[n].out.val.asset.asset_type # calls[n].asset.asset_type

Requery(n) ==
  LET t == calls[n].out.val.asset IN
  [path |-> with_extension(t.file_path, AssetType_extension(t.asset_type)),
   pipeline |-> t.pipeline]

RequeriedChain(n) ==
  PipelineMap_get(self.transformers, Requery(n).path, Requery(n).pipeline)

Restarts(n) == TypeChanged(n) /\ RequeriedChain(n) # calls[n].chain

\* The PipelineMap::get calls of the first n run_transformer calls.
RECURSIVE RequeriesUpTo(_)
RequeriesUpTo(n) ==
  IF n = 0 THEN <<>>
  ELSE RequeriesUpTo(n - 1) \o
         (IF calls[n].out.ok /\ TypeChanged(n) THEN <<Requery(n)>> ELSE <<>>)

\* C7: the map is re-queried exactly for the calls that changed the asset_type,
\* with (file_path with the new type's extension, asset.pipeline). After such a
\* call whose re-queried chain differs from the current one, the next call is the
\* first transformer of the re-queried chain; after any other successful call it
\* is the next transformer of the current chain. Either way it gets the
\* transformed asset and code.
C7_ChangeOfTypeRestart ==
  /\ pc \in {"pipeline", "returned"} =>
       lookups = <<[path |-> self.file_path, pipeline |-> self.pipeline]>>
                   \o RequeriesUpTo(Len(calls))
  /\ \A n \in 1..Len(calls) :
       calls[n].out.ok =>
         LET t == calls[n].out.val
             chain == IF Restarts(n) THEN RequeriedChain(n) ELSE calls[n].chain
             idx == IF Restarts(n) THEN 1 ELSE calls[n].idx + 1
         IN  IF n < Len(calls)
             THEN /\ calls[n + 1].chain = chain
                  /\ calls[n + 1].idx = idx
                  /\ calls[n + 1].plugin = chain[idx]
                  /\ calls[n + 1].asset = t.asset
                  /\ calls[n + 1].code = t.code
             ELSE /\ cur_chain = chain
                  /\ cur_idx = idx
                  /\ cur_result[1].asset = t.asset
                  /\ cur_result[1].code = t.code
                  /\ pipeline_result # None <=> idx > Len(chain)

\* C7 witness: a transformer that was not the last of its chain changed the
\* type, the re-queried chain differed, and the first transformer of that chain
\* was called next with what the transformer returned.
C7_Witness ==
  /\ Len(calls) = 2
  /\ calls[1].idx < Len(calls[1].chain)
  /\ calls[1].out.ok /\ Restarts(1)
  /\ calls[2].chain # calls[1].chain
  /\ calls[2].idx = 1
  /\ calls[2].code = calls[1].out.val.code

\* The bytes AssetRequest::run has for the asset before the pipeline.
InputCode == IF self.code # None THEN self.code[1] ELSE fs.val

\* C17: a run_pipeline call with an empty chain, from run or from a restart,
\* is followed by no run_transformer call and returns Ok of the asset and the
\* code it was given, with no dependencies and no invalidations.
C17_EmptyChainPassThrough ==
  /\ (pc \in {"pipeline", "returned"}
        /\ PipelineMap_get(self.transformers, self.file_path, self.pipeline) = <<>>) =>
       /\ calls = <<>>
       /\ pipeline_result =
            Some(Ok(TransformerResult(InitialAsset(self), InputCode, <<>>, <<>>)))
  /\ \A n \in 1..Len(calls) :
       (calls[n].out.ok /\ Restarts(n) /\ RequeriedChain(n) = <<>>) =>
         /\ n = Len(calls)
         /\ pipeline_result =
              Some(Ok(TransformerResult(calls[n].out.val.asset, calls[n].out.val.code,
                                        <<>>, <<>>)))

\* C17 witness: run_pipeline was called by run with an empty chain and the
\* bytes read from the file system, and has returned them.
C17_Witness ==
  /\ pc = "pipeline"
  /\ cur_chain = <<>>
  /\ calls = <<>>
  /\ self.code = None
  /\ pipeline_result # None
  /\ pipeline_result[1].ok
  /\ pipeline_result[1].val.code = <<2, 3>>
  /\ pipeline_result[1].val.asset.asset_type = "ts"

\* The code that run gave to run_pipeline.
PipelineInput == IF calls # <<>> THEN calls[1].code ELSE cur_result[1].code

\* C18: once run is past obtaining the bytes, a request that carries code has
\* made no input_fs.read call and its pipeline got exactly that code; a request
\* without code has made one read call, for its file_path, and its pipeline got
\* the bytes read.
C18_SuppliedCodeWins ==
  pc # "start" =>
    IF self.code # None
    THEN /\ fs_reads = <<>>
         /\ pc \in {"pipeline", "returned"}
         /\ PipelineInput = self.code[1]
    ELSE /\ fs_reads = <<self.file_path>>
         /\ pc \in {"pipeline", "returned"} => PipelineInput = fs.val

\* C18 witness: run has returned for a request that carried code, on a file
\* system whose read would have failed; its first transformer got that code.
C18_Witness ==
  /\ pc = "returned"
  /\ self.code = Some(<<1>>)
  /\ ~fs.ok
  /\ fs_reads = <<>>
  /\ calls # <<>>
  /\ calls[1].code = <<1>>

\* The dependencies and the invalidations the first n calls returned, in order.
RECURSIVE ReturnedUpTo(_, _)
ReturnedUpTo(field, n) ==
  IF n = 0 THEN <<>>
  ELSE ReturnedUpTo(field, n - 1) \o
         (IF field = "dependencies" THEN calls[n].out.val.dependencies
                                    ELSE calls[n].out.val.invalidations)

\* C8: the result of a run_pipeline that succeeded holds the dependencies and
\* the invalidations of every run_transformer call made, in call order.
C8_AllAccumulated ==
  (pipeline_result # None /\ pipeline_result[1].ok) =>
    /\ pipeline_result[1].val.dependencies = ReturnedUpTo("dependencies", Len(calls))
    /\ pipeline_result[1].val.invalidations = ReturnedUpTo("invalidations", Len(calls))

\* The value of a lower-case hex digit.
HexValue(c) == CHOOSE v \in 0..15 : HexDigits[v + 1] = c

LowerHexDigits == {HexDigits[i] : i \in 1..16}

\* C9: when run_pipeline succeeded and run has returned, the returned asset has
\* output_hash = xxh3_64(final bytes), size = the number of final bytes and
\* content_key = its id, and exactly one cache.set call was made, with the
\* content_key as 16 lower-case hex digits for key and the final bytes for value.
C9_HashedAndCached ==
  (pc = "returned" /\ pipeline_result[1].ok) =>
    /\ request_result[1].result.ok
    /\ LET asset == request_result[1].result.val.asset IN
         /\ asset.output_hash = xxh3_64(FinalBytes)
         /\ asset.size = Len(FinalBytes)
         /\ asset.content_key = Asset_id(asset)
         /\ Len(cache_sets) = 1
         /\ cache_sets[1].value = FinalBytes
         /\ LET key == cache_sets[1].key IN
              /\ Len(key) = 16
              /\ \A i \in 1..Len(key) : key[i] \in LowerHexDigits
              /\ [i \in 1..Len(key) |-> HexValue(key[i])] = Nibbles(asset.content_key)

\* C9 witness: run has returned the asset of a pipeline of two calls; its
\* content_key has leading zero digits and digits above 9.
C9_Witness ==
  /\ pc = "returned"
  /\ request_result[1].result.ok
  /\ Len(calls) = 2
  /\ Len(cache_sets) = 1
  /\ cache_sets[1].key[1] = "0"
  /\ \E i \in 1..16 : cache_sets[1].key[i] \in {"a", "b", "c", "d", "e", "f"}
  /\ request_result[1].result.val.asset.size = 3

\* C10: the asset run_pipeline is first called with has IS_SOURCE iff no
\* component of file_path is "node_modules", has IS_BUNDLE_SPLITTABLE, and has
\* SIDE_EFFECTS iff the request's side_effects is true.
C10_InitialFlags ==
  (pc = "pipeline" /\ calls = <<>>) =>
    LET flags == cur_result[1].asset.flags IN
    /\ "IS_SOURCE" \in flags <=>
         \A i \in DOMAIN self.file_path : as_os_str(self.file_path[i]) # "node_modules"
    /\ "IS_BUNDLE_SPLITTABLE" \in flags
    /\ "SIDE_EFFECTS" \in flags <=> self.side_effects

\* C10 witness: the initial asset of pkg/node_modules/x.js, without IS_SOURCE.
C10_Witness ==
  /\ pc = "pipeline"
  /\ calls = <<>>
  /\ self.file_path = <<Comp("pkg", ""), Comp("node_modules", ""), Comp("x", "js")>>
  /\ self.side_effects
  /\ cur_result[1].asset.flags = {"IS_BUNDLE_SPLITTABLE", "SIDE_EFFECTS"}

\* C20: every call of run_pipeline returns: a run that got its bytes comes to
\* hold run_pipeline's result.
C20_PipelineReturns == (pc = "pipeline") ~> (pipeline_result # None)

\* C11: a run whose file read failed has returned an error result holding a
\* diagnostic tagged with the request's file_path.
C11_ReadFailureIsDiagnostic ==
  (pc # "start" /\ self.code = None /\ ~fs.ok) =>
    /\ pc = "returned"
    /\ ~request_result[1].result.ok
    /\ \E i \in DOMAIN request_result[1].result.diags :
         request_result[1].result.diags[i].path = self.file_path

----------------------------------------------------------------------------
(* Properties of Parcel::build.                                            *)

\* The requests that ran in a build before the n-th.
ExecutedBefore(n) == UNION {builds[m].executed : m \in 1..(n - 1)}

\* C4: the requests a build runs again are exactly those that next_build found
\* dirty: the ones with a recorded invalidation that an event matches, and their
\* parents.
C4_Incremental ==
  \A n \in 2..Len(builds) :
    builds[n].outcome = "returned" =>
      builds[n].executed \cap ExecutedBefore(n) = builds[n].dirty

\* C12: a build whose config request returned diagnostics returns Err of those
\* diagnostics.
C12_ConfigDiagnosticsSurfaced ==
  \A n \in 1..Len(builds) :
    ~builds[n].config.ok =>
      /\ builds[n].outcome = "returned"
      /\ builds[n].result = Some(Err(builds[n].config.diags))

----------------------------------------------------------------------------
(* Properties of get_worker, register_worker and the dispatcher thread.    *)

Range(s) == {s[i] : i \in DOMAIN s}

\* The workers sent to the channel of the get_worker call c: the one it
\* returned and those its rx still holds.
Delivered(c) == get_worker_calls[c].ret \o get_worker_calls[c].rx

\* C22: in every interleaving of get_worker and register_worker calls, a
\* worker handed to a get_worker call was passed to register_worker before, no
\* worker is handed to two get_worker calls, and a get_worker call is handed
\* one worker and no more: the one it returns.
C22_ExactlyOnce ==
  /\ \A c \in DOMAIN get_worker_calls :
       /\ Range(Delivered(c)) \subseteq Range(registered)
       /\ Len(Delivered(c)) <= 1
       /\ get_worker_calls[c].pc = "returned" => Len(get_worker_calls[c].ret) = 1
       /\ get_worker_calls[c].pc # "returned" => get_worker_calls[c].ret = None
  /\ \A c, d \in DOMAIN get_worker_calls :
       c # d => Range(Delivered(c)) \cap Range(Delivered(d)) = {}

\* Every get_worker call has returned, one that found a worker waiting and
\* one that waited for its worker.
C22_Witness ==
  /\ get_worker_calls # <<>>
  /\ \A c \in DOMAIN get_worker_calls : get_worker_calls[c].pc = "returned"
  /\ parked # {}
  /\ parked # DOMAIN get_worker_calls

\* The get_worker calls made so far.
NumGetWorker ==
  Cardinality({c \in DOMAIN get_worker_calls : get_worker_calls[c].pc # "idle"})

\* The registered workers that no get_worker call has returned.
Unclaimed ==
  {w \in Range(registered) :
     \A c \in DOMAIN get_worker_calls : get_worker_calls[c].ret # Some(w)}

\* C23: if from some time on register_worker has been called at least as many
\* times as get_worker, every get_worker call that waits returns; and a
\* get_worker call returns only from a state in which some registered worker
\* is unclaimed.
C23_HandOffLiveness ==
  /\ (<>[](Len(registered) >= NumGetWorker)) =>
       \A c \in GetCalls :
         (get_worker_calls # <<>> /\ get_worker_calls[c].pc = "waiting")
           ~> (get_worker_calls[c].pc = "returned")
  /\ [][\A c \in DOMAIN get_worker_calls :
          (get_worker_calls[c].pc = "waiting" /\ get_worker_calls'[c].pc = "returned")
            => Unclaimed # {}]_vars

\* A get_worker call that had to wait for a worker has returned.
C23_Witness ==
  \E c \in parked : get_worker_calls[c].pc = "returned"

\* C24: after each message the dispatcher has handled, `subscribers` and
\* `workers` are not both non-empty.
C24_NeverBothWaiting == ~(subscribers # <<>> /\ workers # <<>>)

\* The dispatcher has handled every message sent: two registered workers are
\* handed out and a third subscriber waits.
C24_Witness ==
  /\ spawned
  /\ rx_subscribe = <<>>
  /\ Len(registered) = 2
  /\ Len(subscribers) = 1
  /\ workers = <<>>

====
